---------------------------- MODULE Spec2Model ----------------------------
(***************************************************************************)
(* The incremental binary-insertion sorter of priority-sorter              *)
(* (src/src/sorter.rs): Sorter<T> owns one SortState<T>, which is Empty,   *)
(* Compare {unsorted, sorted, lo, hi} or Done {sorted}.  The caller drives *)
(* it with start_sorting, make_choice and finish_sorting.                  *)
(*                                                                         *)
(* Vectors are sequences; a Rust index i (0-based) is position i + 1.      *)
(* The fields a variant does not carry are kept at <<>> and 0.             *)
(*                                                                         *)
(* Besides the sorter's state the model keeps a record of the most recent  *)
(* call (op, pre, outcome, and for finish_sorting the caller's vector      *)
(* before and after; both are <<>> after any other call) and of the run    *)
(* (input, comparisons, placed, history).                                  *)
(*                                                                         *)
(* A definition named as a faulty variant is the definition that follows   *)
(* it with one slip; the properties are tried against these variants.      *)
(***************************************************************************)
EXTENDS Integers, Sequences, FiniteSets

(* Longest vector handed to start_sorting. *)
MaxLen == 4

(* Longest vector the caller hands to finish_sorting as the output vector. *)
MaxPrev == 2

VARIABLES
    state,        \* the variant of Sorter.state: "Empty", "Compare", "Done"
    sorted,       \* SortState::Compare.sorted / SortState::Done.sorted
    unsorted,     \* SortState::Compare.unsorted; the candidate is its last
    lo,           \* SortState::Compare.lo
    hi,           \* SortState::Compare.hi
    op,           \* the most recent call: "new", "start_sorting", "make_choice", "finish_sorting"
    pre,          \* the variant of Sorter.state when the most recent call was made
    outcome,      \* what the most recent call returned to its caller
    input,        \* the items handed to the most recent start_sorting
    comparisons,  \* make_choice calls made in Compare since the most recent start_sorting
    placed,       \* the candidates inserted since the most recent start_sorting, in order
    history,      \* one entry per make_choice that narrowed the window, since that start_sorting
    before,       \* the caller's vector as handed to the most recent finish_sorting
    out           \* the caller's vector as that finish_sorting left it

sorter == <<state, sorted, unsorted, lo, hi>>
vars == <<state, sorted, unsorted, lo, hi, op, pre, outcome, input,
          comparisons, placed, history, before, out>>

-----------------------------------------------------------------------------
(* Helpers on vectors. *)

Last(s) == s[Len(s)]

Front(s) == SubSeq(s, 1, Len(s) - 1)

(* Vec::insert(i, x): x lands at index i, the items at or after i shift.  *)
(* Faulty variants: pushes x at the end; writes x over index i. *)
InsertAtEnd(s, i, x) == Append(s, x)
InsertAtOverwrite(s, i, x) == SubSeq(s, 1, i) \o <<x>> \o SubSeq(s, i + 2, Len(s))
InsertAt(s, i, x) == SubSeq(s, 1, i) \o <<x>> \o SubSeq(s, i + 1, Len(s))

(* The number of positions of s holding x. *)
Count(s, x) == Cardinality({i \in 1..Len(s) : s[i] = x})

(* Same multiset of items. *)
SameItems(s, t) ==
    /\ Len(s) = Len(t)
    /\ \A i \in 1..Len(s) : Count(s, s[i]) = Count(t, s[i])

-----------------------------------------------------------------------------
(* The vectors a caller hands in.  Sorter<T> asks only T: Clone, so it     *)
(* cannot tell items apart except by position: items are numbered by first *)
(* occurrence (1, then 2, ...), equal numbers being duplicates.            *)

SeqsUpTo(n) == UNION {[1..k -> 1..n] : k \in 0..n}

FirstOccurrenceOrder(s) ==
    \A i \in 1..Len(s) :
        \/ s[i] = 1
        \/ \E j \in 1..(i - 1) : s[j] = s[i] - 1

Inputs == {s \in SeqsUpTo(MaxLen) : FirstOccurrenceOrder(s)}

(* Pairwise distinct items in every arrival order. *)
DistinctInputs ==
    {s \in SeqsUpTo(MaxLen) :
        /\ \A i \in 1..Len(s) : s[i] <= Len(s)
        /\ \A i, j \in 1..Len(s) : i # j => s[i] # s[j]}

(* What the caller's output vector may hold before finish_sorting. *)
CallerVecs == {[i \in 1..k |-> k + 1 - i] : k \in 0..MaxPrev}

-----------------------------------------------------------------------------
(* Sorter::new *)

Init ==
    /\ state = "Empty"
    /\ sorted = <<>>
    /\ unsorted = <<>>
    /\ lo = 0
    /\ hi = 0
    /\ op = "new"
    /\ pre = "Empty"
    /\ outcome = "unit"
    /\ input = <<>>
    /\ comparisons = 0
    /\ placed = <<>>
    /\ history = <<>>
    /\ before = <<>>
    /\ out = <<>>

-----------------------------------------------------------------------------
(* Sorter::start_sorting *)

Seed(items) == <<Head(items)>>

(* Faulty variant: the remaining items pushed last-arrived first. *)
RemainingReversed(items) == [i \in 1..(Len(items) - 1) |-> items[Len(items) + 1 - i]]
Remaining(items) == Tail(items)

(* Faulty variants: a run in progress is kept; one item starts a run; hi  *)
(* is the length of the input; no items give Done.                        *)
StartKeepsRun(items) ==
    IF state = "Compare"
    THEN [state |-> state, sorted |-> sorted, unsorted |-> unsorted, lo |-> lo, hi |-> hi]
    ELSE IF Len(items) = 0
    THEN [state |-> "Empty", sorted |-> <<>>, unsorted |-> <<>>, lo |-> 0, hi |-> 0]
    ELSE IF Len(items) = 1
    THEN [state |-> "Done", sorted |-> items, unsorted |-> <<>>, lo |-> 0, hi |-> 0]
    ELSE [state |-> "Compare", sorted |-> Seed(items), unsorted |-> Remaining(items),
          lo |-> 0, hi |-> Len(Seed(items))]
StartOneItemCompares(items) ==
    IF Len(items) = 0
    THEN [state |-> "Empty", sorted |-> <<>>, unsorted |-> <<>>, lo |-> 0, hi |-> 0]
    ELSE [state |-> "Compare", sorted |-> Seed(items), unsorted |-> Remaining(items),
          lo |-> 0, hi |-> Len(Seed(items))]
StartHiFromItems(items) ==
    IF Len(items) = 0
    THEN [state |-> "Empty", sorted |-> <<>>, unsorted |-> <<>>, lo |-> 0, hi |-> 0]
    ELSE IF Len(items) = 1
    THEN [state |-> "Done", sorted |-> items, unsorted |-> <<>>, lo |-> 0, hi |-> 0]
    ELSE [state |-> "Compare", sorted |-> Seed(items), unsorted |-> Remaining(items),
          lo |-> 0, hi |-> Len(items)]
StartEmptyAsDone(items) ==
    IF Len(items) <= 1
    THEN [state |-> "Done", sorted |-> items, unsorted |-> <<>>, lo |-> 0, hi |-> 0]
    ELSE [state |-> "Compare", sorted |-> Seed(items), unsorted |-> Remaining(items),
          lo |-> 0, hi |-> Len(Seed(items))]
StartState(items) ==
    IF Len(items) = 0
    THEN [state |-> "Empty", sorted |-> <<>>, unsorted |-> <<>>, lo |-> 0, hi |-> 0]
    ELSE IF Len(items) = 1
    THEN [state |-> "Done", sorted |-> items, unsorted |-> <<>>, lo |-> 0, hi |-> 0]
    ELSE [state |-> "Compare", sorted |-> Seed(items), unsorted |-> Remaining(items),
          lo |-> 0, hi |-> Len(Seed(items))]

start_sorting(items) ==
    LET s == StartState(items) IN
    /\ state' = s.state
    /\ sorted' = s.sorted
    /\ unsorted' = s.unsorted
    /\ lo' = s.lo
    /\ hi' = s.hi
    /\ op' = "start_sorting"
    /\ pre' = state
    /\ outcome' = "unit"
    /\ input' = items
    /\ comparisons' = 0
    /\ placed' = <<>>
    /\ history' = <<>>
    /\ before' = <<>>
    /\ out' = <<>>

-----------------------------------------------------------------------------
(* Sorter::make_choice *)

(* Faulty variant: a linear scan from lo. *)
MidLow(l, h) == l
Mid(l, h) == (l + h) \div 2

(* Faulty variants: the pivot stays in the upper half; the two halves     *)
(* exchanged.                                                             *)
NarrowKeepsPivot(choice, l, h) ==
    IF choice = "Left"
    THEN [lo |-> l, hi |-> Mid(l, h)]
    ELSE [lo |-> Mid(l, h), hi |-> h]
NarrowSwapped(choice, l, h) ==
    IF choice = "Left"
    THEN [lo |-> Mid(l, h) + 1, hi |-> h]
    ELSE [lo |-> l, hi |-> Mid(l, h)]
Narrow(choice, l, h) ==
    IF choice = "Left"
    THEN [lo |-> l, hi |-> Mid(l, h)]
    ELSE [lo |-> Mid(l, h) + 1, hi |-> h]

ChoiceOutcome == "unit"

(* The Compare arm: the state it leaves, and the candidate it inserted if  *)
(* any.  unsorted.pop() answers None only when unsorted.last() did, so the *)
(* second finalizing arm is the first one.                                 *)
ChoiceInCompare(choice) ==
    LET same == [state |-> state, sorted |-> sorted, unsorted |-> unsorted,
                 lo |-> lo, hi |-> hi, inserted |-> <<>>]
        has_current == unsorted # <<>>
        w == Narrow(choice, lo, hi)
    IN  IF ~has_current
        THEN [state |-> "Done", sorted |-> sorted, unsorted |-> <<>>,
              lo |-> 0, hi |-> 0, inserted |-> <<>>]
        ELSE IF w.lo < w.hi
        THEN [same EXCEPT !.lo = w.lo, !.hi = w.hi]
        ELSE LET x == Last(unsorted)
                 rest == Front(unsorted)
                 s == InsertAt(sorted, w.lo, x)
             IN  IF rest = <<>>
                 THEN [state |-> "Done", sorted |-> s, unsorted |-> <<>>,
                       lo |-> 0, hi |-> 0, inserted |-> <<x>>]
                 ELSE [state |-> "Compare", sorted |-> s, unsorted |-> rest,
                       lo |-> 0, hi |-> Len(s), inserted |-> <<x>>]

(* Faulty variant: the state is taken out of the sorter and put back only *)
(* by the Compare arm.                                                    *)
ChoiceTakesState(choice) ==
    IF state = "Compare"
    THEN ChoiceInCompare(choice)
    ELSE [state |-> "Empty", sorted |-> <<>>, unsorted |-> <<>>,
          lo |-> 0, hi |-> 0, inserted |-> <<>>]
(* The state make_choice leaves; the Empty | Done arm does nothing. *)
ChoiceState(choice) ==
    IF state = "Compare"
    THEN ChoiceInCompare(choice)
    ELSE [state |-> state, sorted |-> sorted, unsorted |-> unsorted,
          lo |-> lo, hi |-> hi, inserted |-> <<>>]

(* What one narrowing make_choice did: the number of the candidate (1 for  *)
(* the first one inserted), the pivot index mid, the choice, the window    *)
(* as narrowed, and the index the candidate was inserted at (-1 if the     *)
(* window stayed open).                                                    *)
Probe(choice, s) ==
    LET w == Narrow(choice, lo, hi) IN
    [cand |-> Len(placed) + 1, mid |-> Mid(lo, hi), choice |-> choice,
     lo |-> w.lo, hi |-> w.hi,
     at |-> IF s.inserted # <<>> THEN w.lo ELSE -1]

make_choice(choice) ==
    LET s == ChoiceState(choice) IN
    /\ state' = s.state
    /\ sorted' = s.sorted
    /\ unsorted' = s.unsorted
    /\ lo' = s.lo
    /\ hi' = s.hi
    /\ op' = "make_choice"
    /\ pre' = state
    /\ outcome' = ChoiceOutcome
    /\ input' = input
    /\ comparisons' = IF state = "Compare" THEN comparisons + 1 ELSE comparisons
    /\ placed' = placed \o s.inserted
    /\ history' = IF state = "Compare" /\ unsorted # <<>>
                  THEN Append(history, Probe(choice, s))
                  ELSE history
    /\ before' = <<>>
    /\ out' = <<>>

-----------------------------------------------------------------------------
(* Sorter::finish_sorting *)

(* Faulty variants: the pending items are popped off the stack; Empty     *)
(* clears the vector; the output is appended.                             *)
FinishPopsPending(items) ==
    IF state = "Done" THEN sorted
    ELSE IF state = "Empty" THEN items
    ELSE sorted \o [i \in 1..Len(unsorted) |-> unsorted[Len(unsorted) + 1 - i]]
FinishClearsEmpty(items) ==
    IF state = "Done" THEN sorted
    ELSE IF state = "Empty" THEN <<>>
    ELSE sorted \o unsorted
FinishExtends(items) ==
    IF state = "Done" THEN items \o sorted
    ELSE IF state = "Empty" THEN items
    ELSE items \o sorted \o unsorted
FinishOutput(items) ==
    IF state = "Done" THEN sorted
    ELSE IF state = "Empty" THEN items
    ELSE sorted \o unsorted

finish_sorting(items) ==
    /\ out' = FinishOutput(items)
    /\ before' = items
    /\ op' = "finish_sorting"
    /\ pre' = state
    /\ outcome' = "unit"
    /\ UNCHANGED <<state, sorted, unsorted, lo, hi, input, comparisons, placed, history>>

-----------------------------------------------------------------------------
(* The caller: any call, in any state, with any argument. *)

Start == \E items \in Inputs : start_sorting(items)

Choose == \E choice \in {"Left", "Right"} : make_choice(choice)

Finish == \E items \in CallerVecs \cup {out} : finish_sorting(items)

Next == Start \/ Choose \/ Finish

Spec == Init /\ [][Next]_vars

-----------------------------------------------------------------------------
(* tests::run_simulated_sort: one run over pairwise distinct items, every  *)
(* decision taken from the numeric order of the items, then finish_sorting *)
(* into a copy of the input.                                               *)

SimulatedChoice ==
    LET mid == Mid(lo, hi)
        x == Last(unsorted)
        y == sorted[mid + 1]
    IN  IF x > y THEN "Left" ELSE "Right"

SimStart == op = "new" /\ \E items \in DistinctInputs : start_sorting(items)

SimChoose == state = "Compare" /\ make_choice(SimulatedChoice)

SimFinish ==
    /\ op \in {"start_sorting", "make_choice"}
    /\ state # "Compare"
    /\ finish_sorting(input)

SimNext == SimStart \/ SimChoose \/ SimFinish

SpecSimulated ==
    Init /\ [][SimNext]_vars /\ WF_vars(SimChoose) /\ WF_vars(SimFinish)

-----------------------------------------------------------------------------
(* Readings used by the properties below. *)

Descending(s) == \A i, j \in 1..Len(s) : i < j => s[i] > s[j]

(* The least e with 2^e >= k. *)
CeilLog2(k) == CHOOSE e \in 0..k : 2^e >= k /\ \A d \in 0..(e - 1) : 2^d < k

RECURSIVE SumCeilLog2(_)
SumCeilLog2(n) == IF n <= 1 THEN 0 ELSE SumCeilLog2(n - 1) + CeilLog2(n)

-----------------------------------------------------------------------------
(* C1: in every reachable state the items held by the sorter (sorted and   *)
(* unsorted in Compare, sorted in Done) are exactly the items handed to    *)
(* the most recent start_sorting, with multiplicity; finish_sorting on a   *)
(* finished run yields a permutation of that input.                        *)
C1_Permutation ==
    /\ state = "Compare" => SameItems(sorted \o unsorted, input)
    /\ state = "Done" => SameItems(sorted, input)
    /\ (op = "finish_sorting" /\ state = "Done") => SameItems(out, input)

(* A finished run over an input with a duplicate, handed out reordered. *)
C1_Witness ==
    /\ op = "finish_sorting"
    /\ state = "Done"
    /\ Len(input) >= 3
    /\ \E i, j \in 1..Len(input) : i # j /\ input[i] = input[j]
    /\ out # input
    /\ comparisons >= 3

-----------------------------------------------------------------------------
(* C2 as claimed: for every input of pairwise distinct items, decisions    *)
(* taken from the order end the run in Done with sorted, and the output of *)
(* finish_sorting, equal to the input in descending order.                 *)
C2_AsClaimed ==
    (op # "new" /\ state # "Compare") =>
        /\ state = "Done"
        /\ Descending(sorted)
        /\ SameItems(sorted, input)
        /\ op = "finish_sorting" => out = sorted

(* C2 as amended: for every non-empty input of pairwise distinct items,    *)
(* decisions taken from the order lead to Done, and there sorted, and the  *)
(* output of finish_sorting, are the input in descending order.  The empty *)
(* input leaves the state Empty.                                           *)
C2_SortsDescending ==
    /\ [](input # <<>> =>
            /\ state \in {"Compare", "Done"}
            /\ state = "Done" =>
                /\ Descending(sorted)
                /\ SameItems(sorted, input)
                /\ op = "finish_sorting" => out = sorted)
    /\ [](op # "new" /\ input = <<>> => state = "Empty")
    /\ (input # <<>>) ~> (state = "Done" /\ op = "finish_sorting")

(* A finished run whose input arrived neither sorted nor reversed. *)
C2_Witness ==
    /\ op = "finish_sorting"
    /\ state = "Done"
    /\ Len(input) >= 4
    /\ ~Descending(input)
    /\ \E i \in 1..(Len(input) - 1) : input[i] > input[i + 1]
    /\ Descending(out)

-----------------------------------------------------------------------------
(* C3: whatever the decisions, the make_choice calls made in Compare       *)
(* during a run over n items number at most the sum of ceil(log2(k)) for   *)
(* k = 2..n, and none for n <= 1.                                          *)
C3_DecisionBound ==
    /\ comparisons <= SumCeilLog2(Len(input))
    /\ Len(input) <= 1 => comparisons = 0

(* A finished run that used the whole budget of a four-item input. *)
C3_Witness ==
    /\ state = "Done"
    /\ Len(input) >= 4
    /\ comparisons = SumCeilLog2(Len(input))

-----------------------------------------------------------------------------
(* C4 as claimed: make_choice called in Empty or Done answers its caller   *)
(* with a failure.                                                         *)
C4_FailureSurfaced ==
    (op = "make_choice" /\ pre \in {"Empty", "Done"}) => outcome = "failure"

-----------------------------------------------------------------------------
(* C5: after start_sorting of no items the state is Empty and              *)
(* finish_sorting leaves the caller's vector as it was; after              *)
(* start_sorting of one item the state is Done holding that item, Compare  *)
(* is never entered and no comparison is made.                             *)
C5_Degenerate ==
    /\ Len(input) = 0 =>
        /\ state = "Empty"
        /\ comparisons = 0
        /\ op = "finish_sorting" => out = before
    /\ Len(input) = 1 =>
        /\ state = "Done"
        /\ sorted = input
        /\ comparisons = 0

(* start_sorting of no items, called in the middle of a run. *)
C5_Witness ==
    /\ op = "start_sorting"
    /\ pre = "Compare"
    /\ input = <<>>
    /\ state = "Empty"

-----------------------------------------------------------------------------
(* C6: finish_sorting leaves in the caller's vector: sorted in Done; what  *)
(* the vector held before in Empty; sorted followed by unsorted, in index  *)
(* order, in Compare, whatever lo and hi are.                              *)
C6_FinishOutput ==
    op = "finish_sorting" =>
        /\ state = "Done" => out = sorted
        /\ state = "Empty" => out = before
        /\ state = "Compare" =>
            /\ Len(out) = Len(sorted) + Len(unsorted)
            /\ \A i \in 1..Len(sorted) : out[i] = sorted[i]
            /\ \A i \in 1..Len(unsorted) : out[Len(sorted) + i] = unsorted[i]

(* finish_sorting in the middle of a run, the window already narrowed. *)
C6_Witness ==
    /\ op = "finish_sorting"
    /\ state = "Compare"
    /\ Len(unsorted) >= 2
    /\ hi < Len(sorted)
    /\ before # <<>>
    /\ out # before

-----------------------------------------------------------------------------
(* C7: finish_sorting leaves the sorter's state as it was, and called      *)
(* again right after itself it writes the same output (in Empty, where the *)
(* output is the vector handed in: when handed the vector it has just      *)
(* written, or one holding what that vector held before).                  *)
C7_IdempotentPeek ==
    [][op' = "finish_sorting" =>
        /\ sorter' = sorter
        /\ (/\ op = "finish_sorting"
            /\ (state # "Empty" \/ before' = out \/ before' = before)) => out' = out]_vars

(* A second finish_sorting in the middle of a run, on the vector the first *)
(* one wrote.                                                              *)
C7_Witness ==
    /\ op = "finish_sorting"
    /\ state = "Compare"
    /\ before = out
    /\ Len(out) > MaxPrev

-----------------------------------------------------------------------------
(* C8: start_sorting of two or more items, in any state, leaves Compare    *)
(* with sorted holding the first item, unsorted the others in arrival      *)
(* order, lo = 0 and hi = 1, and nothing of the run before.                *)
C8_StartReplaces ==
    (op = "start_sorting" /\ Len(input) >= 2) =>
        /\ state = "Compare"
        /\ sorted = <<input[1]>>
        /\ Len(unsorted) = Len(input) - 1
        /\ \A i \in 1..Len(unsorted) : unsorted[i] = input[i + 1]
        /\ unsorted[Len(unsorted)] = input[Len(input)]
        /\ lo = 0
        /\ hi = 1
        /\ comparisons = 0
        /\ placed = <<>>

(* start_sorting called in the middle of a run. *)
C8_Witness ==
    /\ op = "start_sorting"
    /\ pre = "Compare"
    /\ Len(input) >= 3
    /\ state = "Compare"

-----------------------------------------------------------------------------
(* C9: in a run over n >= 2 items the j-th insertion inserts the j-th item *)
(* from the end of the input, and the candidate in Compare is the last     *)
(* arrived item not yet inserted.                                          *)
C9_ReverseOrder ==
    /\ \A j \in 1..Len(placed) : j < Len(input) /\ placed[j] = input[Len(input) + 1 - j]
    /\ state = "Compare" => Last(unsorted) = input[Len(input) - Len(placed)]
    /\ (state = "Done" /\ Len(input) >= 2) => Len(placed) = Len(input) - 1

(* A finished run over four distinct items. *)
C9_Witness ==
    /\ state = "Done"
    /\ input = <<1, 2, 3, 4>>
    /\ placed = <<4, 3, 2>>
    /\ sorted # input

-----------------------------------------------------------------------------
(* C10: start_sorting leads to Empty, Done or Compare by the number of     *)
(* items; make_choice leads from Compare to Compare or Done; make_choice   *)
(* and finish_sorting in Empty or Done change nothing of the state.        *)
C10_Transitions ==
    [][/\ op' = "start_sorting" =>
            state' = IF Len(input') = 0 THEN "Empty"
                     ELSE IF Len(input') = 1 THEN "Done" ELSE "Compare"
       /\ op' = "make_choice" =>
            \/ state = "Compare" /\ state' \in {"Compare", "Done"}
            \/ state \in {"Empty", "Done"} /\ sorter' = sorter
       /\ (op' = "finish_sorting" /\ state \in {"Empty", "Done"}) =>
            sorter' = sorter]_vars

(* make_choice called on a finished run. *)
C10_Witness ==
    /\ op = "make_choice"
    /\ pre = "Done"
    /\ state = "Done"
    /\ Len(sorted) >= 2

-----------------------------------------------------------------------------
(* Readings of the history. *)

(* The decisions of the run, in order. *)
Decisions == [i \in 1..Len(history) |-> history[i].choice]

(* The entries of the history that belong to the j-th candidate. *)
ProbesOf(j) == {i \in 1..Len(history) : history[i].cand = j}

-----------------------------------------------------------------------------
(* C11: in every Compare state 0 <= lo <= hi <= length of sorted.          *)
C11_Window ==
    state = "Compare" => (0 <= lo /\ lo <= hi /\ hi <= Len(sorted))

(* A window narrowed from below while the third candidate is placed. *)
C11_Witness ==
    /\ state = "Compare"
    /\ lo > 0
    /\ hi = Len(sorted)
    /\ op = "make_choice"
    /\ Len(placed) >= 2

-----------------------------------------------------------------------------
(* C12: the run over [A, B, C] (here 1, 2, 3) answered Left then Right:    *)
(* sorted [A] and unsorted [B, C] with candidate C and pivot sorted[0] = A;*)
(* after Left sorted [C, A], unsorted [B], lo 0, hi 2, pivot sorted[1] = A;*)
(* after Right, which narrows to lo 2 and inserts B at index 2, Done with  *)
(* sorted [C, A, B] after exactly two decisions.                           *)
C12_Scenario ==
    input = <<1, 2, 3>> =>
        /\ Decisions = <<>> =>
            /\ state = "Compare"
            /\ sorted = <<1>>
            /\ unsorted = <<2, 3>>
            /\ Last(unsorted) = 3
            /\ (lo + hi) \div 2 = 0
            /\ sorted[((lo + hi) \div 2) + 1] = 1
        /\ Decisions = <<"Left">> =>
            /\ history[1].at = 0
            /\ state = "Compare"
            /\ sorted = <<3, 1>>
            /\ unsorted = <<2>>
            /\ lo = 0
            /\ hi = 2
            /\ (lo + hi) \div 2 = 1
            /\ sorted[((lo + hi) \div 2) + 1] = 1
        /\ Decisions = <<"Left", "Right">> =>
            /\ history[2].lo = 2
            /\ history[2].at = 2
            /\ state = "Done"
            /\ sorted = <<3, 1, 2>>
            /\ comparisons = 2

(* The end of the scenario. *)
C12_Witness ==
    /\ input = <<1, 2, 3>>
    /\ Decisions = <<"Left", "Right">>
    /\ state = "Done"
    /\ placed = <<3, 2>>

-----------------------------------------------------------------------------
(* C13: whatever the decisions, the candidate inserted into a sorted list  *)
(* of k - 1 items takes at most ceil(log2(k)) make_choice calls from the   *)
(* reset of the window to its insertion, and at least one.                 *)
C13_PerCandidate ==
    /\ \A j \in 1..(Len(placed) + 1) :
        Cardinality(ProbesOf(j)) <= CeilLog2(j + 1)
    /\ \A j \in 1..Len(placed) :
        /\ Cardinality(ProbesOf(j)) >= 1
        /\ \A i \in ProbesOf(j) : history[i].at >= 0 <=> i + 1 \notin ProbesOf(j)
    /\ \A i \in 1..Len(history) : history[i].cand <= Len(placed) + 1

(* A finished run whose second candidate took one decision, fewer than its *)
(* budget of two, and whose third took both of its two.                    *)
C13_Witness ==
    /\ state = "Done"
    /\ Len(placed) >= 3
    /\ Cardinality(ProbesOf(2)) = 1
    /\ Cardinality(ProbesOf(3)) = 2

-----------------------------------------------------------------------------
(* C14: every make_choice in Compare narrows the window to one strictly    *)
(* less wide than before the call; the window kept in the state gets wider *)
(* only when that call inserted the candidate and reset it to the whole of *)
(* sorted.                                                                 *)
C14_WidthDecreases ==
    [][(op' = "make_choice" /\ state = "Compare") =>
        /\ Len(history') = Len(history) + 1
        /\ LET e == history'[Len(history')]
               mid == (lo + hi) \div 2
           IN  /\ e.lo = (IF e.choice = "Left" THEN lo ELSE mid + 1)
               /\ e.hi = (IF e.choice = "Left" THEN mid ELSE hi)
               /\ e.hi - e.lo < hi - lo
               /\ e.hi - e.lo >= 0
        /\ (state' = "Compare" /\ hi' - lo' >= hi - lo) =>
            /\ Len(placed') = Len(placed) + 1
            /\ lo' = 0
            /\ hi' = Len(sorted')]_vars

(* A window of width two narrowed to width one for the same candidate. *)
C14_Witness ==
    /\ op = "make_choice"
    /\ state = "Compare"
    /\ history # <<>>
    /\ history[Len(history)].at = -1
    /\ hi - lo = 1
    /\ Len(sorted) >= 3

-----------------------------------------------------------------------------
(* Runs that are not interrupted: start_sorting is called only when no run *)
(* is in progress, and in Compare make_choice keeps being called, with any *)
(* decisions.  No run over MaxLen items needs more make_choice calls than  *)
(* ChoiceCap - 1; a caller that has made ChoiceCap of them gives up, so    *)
(* that a run that does not end is a run that stays in Compare.            *)

ChoiceCap == SumCeilLog2(MaxLen) + 1

RunStart == state # "Compare" /\ Start

RunChoose == state = "Compare" /\ comparisons < ChoiceCap /\ Choose

RunNext == RunStart \/ RunChoose \/ Finish

SpecRun == Init /\ [][RunNext]_vars /\ WF_vars(RunChoose)

(* C15: from every Compare state, make_choice being called again and       *)
(* again with any decisions and no start_sorting in between, the state     *)
(* becomes Done; the caller never has to give up.                          *)
C15_Terminates ==
    /\ [](state = "Compare" => comparisons < ChoiceCap)
    /\ (state = "Compare") ~> (state = "Done")

(* A run over four items ended by its fifth decision. *)
C15_Witness ==
    /\ state = "Done"
    /\ op = "make_choice"
    /\ pre = "Compare"
    /\ Len(input) >= 4
    /\ comparisons >= 5

-----------------------------------------------------------------------------
(* C16: one make_choice in Compare.  If the narrowed window is not empty,  *)
(* sorted and unsorted are as before, the state is still Compare and       *)
(* exactly one of lo and hi has changed.  If it is empty, the last of      *)
(* unsorted is removed and inserted into sorted at index lo, the items     *)
(* before that index staying and the others moving one place on; then the  *)
(* state is Done if unsorted is now empty, and otherwise Compare with      *)
(* lo = 0 and hi = the length of sorted.                                   *)
C16_ChoiceEffect ==
    [][(op' = "make_choice" /\ state = "Compare") =>
        /\ Len(history') = Len(history) + 1
        /\ LET c == history'[Len(history')].choice
               mid == (lo + hi) \div 2
               nlo == IF c = "Left" THEN lo ELSE mid + 1
               nhi == IF c = "Left" THEN mid ELSE hi
           IN  IF nlo < nhi
               THEN /\ state' = "Compare"
                    /\ sorted' = sorted
                    /\ unsorted' = unsorted
                    /\ lo' = nlo
                    /\ hi' = nhi
                    /\ (lo' = lo) # (hi' = hi)
               ELSE /\ nlo = nhi
                    /\ Len(unsorted') = Len(unsorted) - 1
                    /\ \A i \in 1..Len(unsorted') : unsorted'[i] = unsorted[i]
                    /\ Len(sorted') = Len(sorted) + 1
                    /\ sorted'[nlo + 1] = unsorted[Len(unsorted)]
                    /\ \A i \in 1..nlo : sorted'[i] = sorted[i]
                    /\ \A i \in (nlo + 1)..Len(sorted) : sorted'[i + 1] = sorted[i]
                    /\ IF Len(unsorted) = 1
                       THEN state' = "Done"
                       ELSE /\ state' = "Compare"
                            /\ lo' = 0
                            /\ hi' = Len(sorted')]_vars

(* An insertion in the middle of sorted, with a candidate left to place. *)
C16_Witness ==
    /\ op = "make_choice"
    /\ state = "Compare"
    /\ history # <<>>
    /\ history[Len(history)].at = 1
    /\ Len(sorted) = 3
    /\ lo = 0
    /\ hi = 3

-----------------------------------------------------------------------------
(* C17 as claimed: finish_sorting in Compare leaves the pending items at   *)
(* the end of the output in the reverse of their arrival order.            *)
C17_AsClaimed ==
    (op = "finish_sorting" /\ state = "Compare") =>
        \A i \in 1..Len(unsorted) :
            out[Len(sorted) + i] = input[Len(unsorted) + 2 - i]

(* C17 as amended: finish_sorting in Compare leaves the pending items at   *)
(* the end of the output in their arrival order: they are the input's      *)
(* items after the first, up to the candidate, which comes last.           *)
C17_ArrivalOrder ==
    (op = "finish_sorting" /\ state = "Compare") =>
        /\ Len(out) = Len(sorted) + Len(unsorted)
        /\ Len(unsorted) = Len(input) - 1 - Len(placed)
        /\ \A i \in 1..Len(unsorted) : out[Len(sorted) + i] = input[i + 1]
        /\ out[Len(out)] = input[Len(input) - Len(placed)]

(* finish_sorting after one insertion, two distinct items still pending. *)
C17_Witness ==
    /\ op = "finish_sorting"
    /\ state = "Compare"
    /\ Len(placed) = 1
    /\ Len(unsorted) = 2
    /\ unsorted[1] # unsorted[2]
    /\ out[Len(out)] = unsorted[2]

-----------------------------------------------------------------------------
(* C18: in every Compare state unsorted is not empty and lo < hi, so that  *)
(* the candidate exists and (lo + hi) / 2 is an index of sorted; every     *)
(* make_choice made in Compare found its candidate, so the arms that       *)
(* finalize for want of one were never taken.                              *)
C18_CandidateAndPivot ==
    /\ state = "Compare" =>
        /\ unsorted # <<>>
        /\ lo < hi
        /\ 0 <= (lo + hi) \div 2
        /\ (lo + hi) \div 2 < Len(sorted)
    /\ comparisons = Len(history)
    /\ (state = "Done" /\ Len(input) >= 2) =>
        /\ history # <<>>
        /\ history[Len(history)].at >= 0

(* The last candidate of a run, its window narrowed to the last index. *)
C18_Witness ==
    /\ state = "Compare"
    /\ op = "make_choice"
    /\ Len(unsorted) = 1
    /\ Len(sorted) = 3
    /\ lo = 2
    /\ hi = 3

-----------------------------------------------------------------------------
(* C19: when a candidate has just been inserted, every pivot it beat (Left)*)
(* is at a later index of sorted than the candidate, every pivot that beat *)
(* it (Right) at an earlier one, and it met no pivot index twice.          *)
C19_RespectsDecisions ==
    (history # <<>> /\ history[Len(history)].at >= 0) =>
        LET e == history[Len(history)]
            p == e.at
            now(mid) == IF mid >= p THEN mid + 1 ELSE mid
        IN  /\ Len(placed) = e.cand
            /\ sorted[p + 1] = placed[e.cand]
            /\ \A i \in ProbesOf(e.cand) :
                /\ history[i].choice = "Left" => now(history[i].mid) > p
                /\ history[i].choice = "Right" => now(history[i].mid) < p
            /\ \A i, k \in ProbesOf(e.cand) :
                i # k => history[i].mid # history[k].mid

(* A candidate inserted after losing to one pivot and beating another. *)
C19_Witness ==
    /\ history # <<>>
    /\ history[Len(history)].at >= 0
    /\ \E i, k \in ProbesOf(history[Len(history)].cand) :
        history[i].choice = "Right" /\ history[k].choice = "Left"

-----------------------------------------------------------------------------
(* C20: Done never holds an empty sorted: in Done sorted is not empty and  *)
(* has as many items as the most recent start_sorting was given; Empty is  *)
(* the state only after construction or start_sorting of no items, and     *)
(* make_choice never leads to it.                                          *)
C20_NoEmptyDone ==
    /\ state = "Done" =>
        /\ sorted # <<>>
        /\ Len(sorted) = Len(input)
    /\ state = "Empty" =>
        /\ input = <<>>
        /\ op = "make_choice" => pre = "Empty"

(* A run of two or more items finished by its last insertion. *)
C20_Witness ==
    /\ state = "Done"
    /\ op = "make_choice"
    /\ pre = "Compare"
    /\ Len(sorted) = Len(input)
    /\ Len(sorted) >= 2
    /\ Len(placed) = Len(sorted) - 1

=============================================================================
